---- MODULE Spec2Model ----
(***************************************************************************)
(* The worker-side runtime of orchpy: remote function declaration,         *)
(* invocation, the worker main loop and the object store boundary          *)
(* (src/lib/orchpy/orchpy/worker.py).  The scheduler and the object store  *)
(* (orchpy.lib) are modelled from their documented interface.              *)
(***************************************************************************)
EXTENDS Integers, Sequences, FiniteSets, TLC

\* ------------------------------------------------------------------------
\* Bounds of the model
\* ------------------------------------------------------------------------
MaxCalls == 2       \* invocations issued by the driver
MaxArgs == 3        \* longest argument list the driver passes
MaxSig == 2         \* longest arg_types prefix enumerated for check_arguments
MaxRegs == 2        \* registrations of classes for serialization

Workers == {"w1", "w2"}

\* ------------------------------------------------------------------------
\* Values.  A Python value is [kind, val]; kind is its runtime type.
\* ------------------------------------------------------------------------
IntV(n) == [kind |-> "int", val |-> n]
StrV == [kind |-> "str", val |-> 0]
ObjV == [kind |-> "obj", val |-> 0]       \* instance of a class nobody registered
RefV(r) == [kind |-> "objref", val |-> r]

NoneT == "None"                           \* the variadic sentinel in arg_types

IsObjRef(v) == v.kind = "objref"
IsInstance(v, t) == v.kind = t

\* The result of a Python call: one value, or a tuple of values.
Single(v) == [tuple |-> FALSE, elems |-> <<v>>]
Tuple(vs) == [tuple |-> TRUE, elems |-> vs]

\* ------------------------------------------------------------------------
\* Distributed functions of the application module (worker.py:127-147)
\* ------------------------------------------------------------------------
FuncNames == {"add", "split", "forward", "label", "tag", "wrap",
              "fail", "trio", "pack"}

\* names bound in the module, distributed or not
ModuleBindings == FuncNames \cup {"helper"}

\* a slip: every binding of the module taken for a distributed function
is_distributed_any(b) == TRUE

is_distributed(b) == b \in FuncNames

arg_types(f) ==
    IF f = "add" THEN <<"int", "int">> ELSE <<"int">>

return_types(f) ==
    CASE f = "add" -> <<"int">>
      [] f = "split" -> <<"int", "int">>
      [] f = "forward" -> <<"int">>
      [] f = "label" -> <<"int">>
      [] f = "tag" -> <<"int", "int">>
      [] f = "wrap" -> <<"int", "obj">>
      [] f = "fail" -> <<"int">>
      [] f = "trio" -> <<"int", "int">>
      [] f = "pack" -> <<"tuple">>

\* what a call of a body that raises comes to
Raises == Single([kind |-> "exception", val |-> 0])

\* The bodies of the user functions: the set of results the body may return
\* for the given arguments; held is the set of object references the body
\* has at hand.  fail raises, trio returns three values for two declared,
\* pack returns a tuple as its one value.
func(f, arguments, held) ==
    CASE f = "add" -> {Single(IntV(arguments[1].val + arguments[2].val))}
      [] f = "split" -> {Tuple(<<arguments[1], IntV(arguments[1].val + 1)>>)}
      [] f = "forward" -> {Single(arguments[1])} \cup {Single(RefV(r)) : r \in held}
      [] f = "label" -> {Single(StrV)}
      [] f = "tag" -> {Tuple(<<arguments[1], StrV>>)}
      [] f = "wrap" -> {Tuple(<<arguments[1], ObjV>>)}
      [] f = "fail" -> {Raises}
      [] f = "trio" -> {Tuple(<<arguments[1], arguments[1], arguments[1]>>)}
      [] f = "pack" -> {Tuple(<<arguments[1], arguments[1]>>)}

\* ------------------------------------------------------------------------
\* check_arguments (worker.py:163-185)
\* ------------------------------------------------------------------------
Last(s) == s[Len(s)]

\* worker.py:170-178, i is the 0-based position
ExpectedType(at, i) ==
    IF i < Len(at) - 1 THEN at[i + 1]
    ELSE IF i = Len(at) - 1 /\ Last(at) # NoneT THEN Last(at)
    ELSE IF Len(at) = 0 THEN "IndexError"
    ELSE IF Last(at) = NoneT /\ Len(at) > 1 THEN at[Len(at) - 1]
    ELSE "Unreachable"

\* a slip: a variadic signature asked for one argument per entry
CheckCountStrict(at, args) ==
    IF Len(args) # Len(at)
    THEN IF Len(at) = 0 THEN "IndexError"
         ELSE IF Last(at) # NoneT THEN "ArityError"
         ELSE IF Len(args) < Len(at) THEN "ArityError"
         ELSE "ok"
    ELSE "ok"

\* worker.py:164-168: the number of arguments
CheckCount(at, args) ==
    IF Len(args) # Len(at)
    THEN IF Len(at) = 0 THEN "IndexError"
         ELSE IF Last(at) # NoneT THEN "ArityError"
         ELSE IF Len(args) < Len(at) - 1 THEN "ArityError"
         ELSE "ok"
    ELSE "ok"

\* worker.py:170-185: the loop over the arguments from 0-based position i on
RECURSIVE CheckFrom(_, _, _)
CheckFrom(at, args, i) ==
    IF i >= Len(args) THEN "ok"
    ELSE LET expected_type == ExpectedType(at, i)
             arg == args[i + 1]
         IN  IF expected_type = "Unreachable" THEN "AssertionError"
             ELSE IF expected_type = "IndexError" THEN "IndexError"
             ELSE IF IsObjRef(arg) THEN CheckFrom(at, args, i + 1)
             ELSE IF ~IsInstance(arg, expected_type) THEN "ArgumentTypeError"
             ELSE CheckFrom(at, args, i + 1)

\* a slip: the types of the arguments left unchecked
check_arguments_count_only(at, args) == CheckCount(at, args)

check_arguments(at, args) ==
    IF CheckCount(at, args) # "ok" THEN CheckCount(at, args)
    ELSE CheckFrom(at, args, 0)

\* ------------------------------------------------------------------------
\* check_return_values (worker.py:150-160)
\* ------------------------------------------------------------------------
\* a slip: the number of values returned left unchecked
check_return_values_no_arity(rt, result) ==
    IF Len(rt) = 1 THEN "ok"
    ELSE IF ~result.tuple THEN "TypeError"
    ELSE IF \E i \in 1..Len(rt) :
                /\ i <= Len(result.elems)
                /\ ~IsInstance(result.elems[i], rt[i])
                /\ ~IsObjRef(result.elems[i])
         THEN "ReturnTypeError"
    ELSE "ok"

check_return_values(rt, result) ==
    IF Len(rt) = 1 THEN "ok"
    ELSE IF ~result.tuple THEN "TypeError"          \* len() of a non-sequence
    ELSE IF Len(result.elems) # Len(rt) THEN "ReturnArityError"
    ELSE IF \E i \in 1..Len(rt) :
                /\ ~IsInstance(result.elems[i], rt[i])
                /\ ~IsObjRef(result.elems[i])
         THEN "ReturnTypeError"
    ELSE "ok"

\* ------------------------------------------------------------------------
\* get_arguments_for_execution (worker.py:188-221)
\* ------------------------------------------------------------------------
\* worker.py:199-207, i is the 0-based position
ExecExpectedType(at, i) ==
    IF i < Len(at) - 1 THEN at[i + 1]
    ELSE IF i = Len(at) - 1 /\ Last(at) # NoneT THEN Last(at)
    ELSE IF Len(at) = 0 THEN "IndexError"
    ELSE IF Last(at) = NoneT /\ Len(at) > 1 THEN at[Len(at) - 1]
    ELSE "Unreachable"

\* a slip: the resolved argument passed on unchecked
CheckArgumentSkipped(argument, expected_type) == "ok"

\* worker.py:218: the check of one resolved argument
CheckArgument(argument, expected_type) ==
    IF ~IsInstance(argument, expected_type) THEN "ArgumentTypeError" ELSE "ok"

\* the stage that follows the argument at 0-based position i - 1
AfterArgument(args, i) ==
    IF i >= Len(args) THEN "Executing" ELSE "ResolvingArgs"

\* ------------------------------------------------------------------------
\* The object store behind orchpy.lib and the serialization of values
\* ------------------------------------------------------------------------
\* serialization.serialize: the capsule of a value, when its type is known
CanSerialize(value) == value.kind # "obj"
serialize(value) == [fmt |-> "object", tag |-> value.kind, payload |-> value.val]
deserialize(capsule) == [kind |-> capsule.tag, val |-> capsule.payload]

\* a slip: a value that cannot be serialized is dropped without raising
put_object_silent(value) ==
    IF CanSerialize(value) THEN [error |-> "ok", entry |-> <<serialize(value)>>]
    ELSE [error |-> "ok", entry |-> <<>>]

\* Worker.put_object (worker.py:18-32): what ends up stored under the objref
put_object(value) ==
    CASE value.kind = "csr_matrix" ->
            [error |-> "ok", entry |-> <<[fmt |-> "arrow", tag |-> "csr_dict", payload |-> value.val]>>]
      [] value.kind = "ndarray" ->
            [error |-> "ok", entry |-> <<[fmt |-> "arrow", tag |-> "ndarray", payload |-> value.val]>>]
      [] value.kind = "coo_matrix" ->
            [error |-> "ok", entry |-> <<[fmt |-> "arrow", tag |-> "coo_dict", payload |-> value.val]>>]
      [] value.kind = "dict" ->
            \* put_arrow(value): called without handle and objref
            [error |-> "TypeError", entry |-> <<>>]
      [] OTHER ->
            IF CanSerialize(value)
            THEN [error |-> "ok", entry |-> <<serialize(value)>>]
            ELSE [error |-> "UnregisteredTypeError", entry |-> <<>>]

\* a slip: the two objrefs the other way round
alias_objrefs_swapped(al, alias_objref, target_objref) ==
    [al EXCEPT ![target_objref] = alias_objref]

\* Worker.alias_objrefs (worker.py:53-55)
alias_objrefs(al, alias_objref, target_objref) ==
    [al EXCEPT ![alias_objref] = target_objref]

\* orchpy.lib.alias_objrefs: the canonical objref an objref stands for
RECURSIVE Canonical(_, _)
Canonical(al, r) == IF al[r] = 0 THEN r ELSE Canonical(al, al[r])

\* a slip: the objref read as it is, its alias not followed
AvailableDirect(st, al, r) == st[r] # <<>>

\* the value of objref r has been written to the store
Available(st, al, r) == st[Canonical(al, r)] # <<>>

\* a slip: the capsule returned as it is stored, not deserialized
get_object_raw(st, al, r) ==
    [kind |-> "capsule", val |-> st[Canonical(al, r)][1].payload]

\* Worker.get_object (worker.py:34-51), once the value is available
get_object(st, al, r) ==
    LET capsule == st[Canonical(al, r)][1]
    IN  IF capsule.fmt = "arrow"
        THEN IF capsule.tag = "csr_dict" THEN [kind |-> "csr_matrix", val |-> capsule.payload]
             ELSE IF capsule.tag = "coo_dict" THEN [kind |-> "coo_matrix", val |-> capsule.payload]
             ELSE [kind |-> capsule.tag, val |-> capsule.payload]
        ELSE deserialize(capsule)

\* a slip: the list of objrefs whatever its length
func_call_result_list(objrefs) == Tuple(objrefs)

\* func_call (worker.py:140): what the caller gets back
func_call_result(objrefs) ==
    IF Len(objrefs) = 1 THEN Single(objrefs[1]) ELSE Tuple(objrefs)

\* a slip: every return objref gets the first output
OutputsOfFirst(objrefs, result) ==
    [j \in 1..Len(objrefs) |-> result.elems[1]]

\* store_outputs_in_objstore (worker.py:225-226): the outputs as a sequence
OutputsOf(objrefs, result) ==
    IF Len(objrefs) = 1
    THEN IF result.tuple
         THEN <<[kind |-> "tuple", val |-> Len(result.elems)]>>
         ELSE <<result.elems[1]>>
    ELSE result.elems

\* a slip: the loop stops one output short
OutputsStoredEarly(objrefs, i) == i >= Len(objrefs) - 1

\* store_outputs_in_objstore (worker.py:228): the loop is over
OutputsStored(objrefs, i) == i >= Len(objrefs)

\* ------------------------------------------------------------------------
\* The registry of serializable classes (serialization.py:87-150)
\* ------------------------------------------------------------------------
\* a Python dict: a function from its keys
EmptyDict == [k \in {} |-> ""]
add_entry(d, k, v) == [x \in DOMAIN d \cup {k} |-> IF x = k THEN v ELSE d[x]]
pop_entry(d, k) == [x \in DOMAIN d \ {k} |-> d[x]]

\* The classes of the application: Plain is an ordinary new-style class,
\* SubPlain a subclass of it, Slotted declares __slots__ (no __dict__),
\* Mixed declares __slots__ with "__dict__" among them, NewOverride has a
\* __new__ that wants arguments, OldStyle is an old-style class, Point is a
\* namedtuple; ndarray is numpy's array, instance the type of the instances
\* of old-style classes.
AppClasses == {"Plain", "SubPlain", "Slotted", "Mixed", "NewOverride", "OldStyle", "Point"}
Classes == AppClasses \cup {"ndarray", "instance"}

bases(cls) ==
    CASE cls = "SubPlain" -> <<"Plain">>
      [] cls = "Point" -> <<"tuple">>
      [] cls = "OldStyle" -> <<>>
      [] OTHER -> <<"object">>

has_new(cls) == cls # "OldStyle"                    \* hasattr(cls, "__new__")
new_works(cls) == cls \notin {"NewOverride", "Point", "ndarray"}  \* cls.__new__(cls)
has_dict(cls) == cls \notin {"Slotted", "ndarray"}  \* hasattr(obj, "__dict__")
has_slots(cls) == cls \in {"Slotted", "Mixed", "Point"}  \* hasattr(obj, "__slots__")
has_fields(cls) == cls = "Point"                    \* _fields, a tuple of str

\* class_identifier (serialization.py:118-120): "module.name"
class_identifier(typ) ==
    CASE typ = "ndarray" -> "numpy.ndarray"
      [] typ = "instance" -> "__builtin__.instance"
      [] typ = "Plain" -> "app.Plain"
      [] typ = "SubPlain" -> "app.SubPlain"
      [] typ = "Slotted" -> "app.Slotted"
      [] typ = "Mixed" -> "app.Mixed"
      [] typ = "NewOverride" -> "app.NewOverride"
      [] typ = "OldStyle" -> "app.OldStyle"
      [] typ = "Point" -> "app.Point"

\* is_named_tuple (serialization.py:122-130)
is_named_tuple(cls) ==
    IF Len(bases(cls)) # 1 \/ bases(cls)[1] # "tuple" THEN FALSE
    ELSE has_fields(cls)

\* a slip: the test for __slots__ left out
check_serializable_no_slots(cls) ==
    IF is_named_tuple(cls) THEN "ok"
    ELSE IF ~has_new(cls) THEN "UnserializableTypeError"
    ELSE IF ~new_works(cls) THEN "UnserializableTypeError"
    ELSE IF ~has_dict(cls) THEN "UnserializableTypeError"
    ELSE "ok"

\* check_serializable (serialization.py:87-109): "ok" or the exception
check_serializable(cls) ==
    IF is_named_tuple(cls) THEN "ok"
    ELSE IF ~has_new(cls) THEN "UnserializableTypeError"
    ELSE IF ~new_works(cls) THEN "UnserializableTypeError"
    ELSE IF ~has_dict(cls) THEN "UnserializableTypeError"
    ELSE IF has_slots(cls) THEN "UnserializableTypeError"
    ELSE "ok"

NoneC == "None"
Serializers == {NoneC, "enc"}           \* custom_serializer arguments
Deserializers == {NoneC, "dec"}         \* custom_deserializer arguments

\* ------------------------------------------------------------------------
\* serialize and deserialize of application objects (serialization.py:160-216)
\* ------------------------------------------------------------------------
\* An object: its class, its attributes (__dict__, or the slots or fields
\* when it has none) and the arguments __getnewargs__ gives.
Obj(cls, attrs, newargs) == [cls |-> cls, attrs |-> attrs, newargs |-> newargs]

Attrs1 == add_entry(EmptyDict, "x", "1")
Attrs2 == add_entry(Attrs1, "_pytype_", "2")

\* type(obj): an instance of an old-style class has the type instance
type(obj) == IF has_new(obj.cls) THEN obj.cls ELSE "instance"

\* what the dict passed on to numbuf holds under a key
Text(v) == [t |-> "text", v |-> v]
Data(codec, obj) == [t |-> codec, v |-> obj]
NewArgs(a) == [t |-> "args", v |-> a]

\* obj.__dict__ as serialize sees it
dict_of(obj) == [k \in DOMAIN obj.attrs |-> Text(obj.attrs[k])]

\* pickling.dumps / pickling.loads and the custom codecs; dec decodes what
\* enc encodes and the array codecs are each other's inverse
apply_serializer(f, obj) == Data(f, obj)

apply_deserializer(g, data) ==
    IF g = NoneC THEN [error |-> "TypeError", obj |-> <<>>]       \* None(...)
    ELSE IF \/ g = "loads" /\ data.t = "dumps"
            \/ g = "dec" /\ data.t = "enc"
            \/ g = "array_custom_deserializer" /\ data.t = "array_custom_serializer"
    THEN [error |-> "ok", obj |-> <<data.v>>]
    ELSE [error |-> "ValueError", obj |-> <<>>]

\* a slip: a class counts as registered when one of its bases is
is_whitelisted_or_base(wc, cls) ==
    \/ class_identifier(cls) \in DOMAIN wc
    \/ \E i \in 1..Len(bases(cls)) :
          bases(cls)[i] \in Classes /\ class_identifier(bases(cls)[i]) \in DOMAIN wc

\* serialization.py:173: class_id in whitelisted_classes
is_whitelisted(wc, cls) == class_identifier(cls) \in DOMAIN wc

\* serialize (serialization.py:160-187): the exception, or the dict returned
ray_serialize(wc, cp, cs, obj) ==
    LET class_id == class_identifier(type(obj))
    IN  IF ~is_whitelisted(wc, type(obj))
        THEN [error |-> "UnregisteredTypeError", out |-> <<>>]
        ELSE IF class_id \in cp
        THEN [error |-> "ok",
              out |-> <<add_entry(add_entry(EmptyDict, "data", apply_serializer("dumps", obj)),
                                  "_pytype_", Text(class_id))>>]
        ELSE IF class_id \in DOMAIN cs
        THEN [error |-> "ok",
              out |-> <<add_entry(add_entry(EmptyDict, "data", apply_serializer(cs[class_id], obj)),
                                  "_pytype_", Text(class_id))>>]
        ELSE IF ~has_dict(obj.cls)
        THEN [error |-> "UnserializableObjectError", out |-> <<>>]
        ELSE LET serialized_obj ==
                     IF is_named_tuple(type(obj))
                     THEN add_entry(dict_of(obj), "_ray_getnewargs_", NewArgs(obj.newargs))
                     ELSE dict_of(obj)
             IN  [error |-> "ok",
                  out |-> <<add_entry(serialized_obj, "_pytype_", Text(class_id))>>]

\* the strategy serialize takes for a class id
serialize_strategy(cp, cs, class_id) ==
    IF class_id \in cp THEN "pickle"
    ELSE IF class_id \in DOMAIN cs THEN "custom"
    ELSE "structural"

\* the strategy deserialize takes for a class id
deserialize_strategy(cp, cd, class_id) ==
    IF class_id \in cp THEN "pickle"
    ELSE IF class_id \in DOMAIN cd THEN "custom"
    ELSE "structural"

\* deserialize (serialization.py:189-216): the exception, or the object
ray_deserialize(wc, cp, cd, serialized_obj) ==
    LET class_id == serialized_obj["_pytype_"].v
    IN  IF class_id \notin DOMAIN wc THEN [error |-> "KeyError", obj |-> <<>>]
        ELSE IF class_id \in cp
        THEN IF "data" \notin DOMAIN serialized_obj
             THEN [error |-> "KeyError", obj |-> <<>>]
             ELSE apply_deserializer("loads", serialized_obj["data"])
        ELSE IF class_id \in DOMAIN cd
        THEN IF "data" \notin DOMAIN serialized_obj
             THEN [error |-> "KeyError", obj |-> <<>>]
             ELSE apply_deserializer(cd[class_id], serialized_obj["data"])
        ELSE LET cls == wc[class_id]
                 rest == pop_entry(pop_entry(serialized_obj, "_ray_getnewargs_"), "_pytype_")
                 attrs == [k \in DOMAIN rest |-> rest[k].v]
             IN  IF "_ray_getnewargs_" \in DOMAIN serialized_obj
                 THEN [error |-> "ok",
                       obj |-> <<Obj(cls, attrs, serialized_obj["_ray_getnewargs_"].v)>>]
                 ELSE IF ~new_works(cls)
                 THEN [error |-> "TypeError", obj |-> <<>>]
                 ELSE [error |-> "ok", obj |-> <<Obj(cls, attrs, <<>>)>>]

\* ------------------------------------------------------------------------
\* State
\* ------------------------------------------------------------------------
VARIABLES
    connected,      \* worker -> orchpy.lib.connected(worker.handle)
    functions,      \* worker -> names in worker.functions
    fntable,        \* scheduler: function name -> registered return arity, -1 if none
    nextref,        \* scheduler: next objref to allocate
    tasks,          \* scheduler: every call scheduled, in order
    queue,          \* scheduler: tasks not yet handed to a worker
    notified,       \* scheduler: per task, notify_task_completed calls received
    objstore,       \* object store: objref -> <<>> or <<capsule>>
    aliases,        \* object store: objref -> aliased target, 0 if none
    pc,             \* worker -> stage of main_loop
    call,           \* worker -> task in process_call, 0 if none
    idx,            \* worker -> loop index i
    arguments,      \* worker -> arguments resolved so far
    outputs,        \* worker -> result of the executor
    error,          \* worker -> exception that left main_loop
    ncalls,         \* driver: invocations made
    lastcall,       \* driver: the last invocation and what it returned
    chk,            \* argument check bench: signature, arguments, outcomes
    service,        \* worker -> start_worker_service has been called
    registrations,  \* scheduler: per worker and function name, the return
                    \* arities received with register_function, in order
    storeops,       \* object store: objref -> number of puts and of aliasings
    whitelisted_classes,    \* serialization: class id -> class
    classes_to_pickle,      \* serialization: class ids
    custom_serializers,     \* serialization: class id -> serializer
    custom_deserializers,   \* serialization: class id -> deserializer
    lastreg,        \* the last registration of a class and its outcome
    ser             \* the last object serialized and what came out and back

vars == <<connected, functions, fntable, nextref, tasks, queue, notified,
          objstore, aliases, pc, call, idx, arguments, outputs, error,
          ncalls, lastcall, chk, service, registrations, storeops,
          whitelisted_classes, classes_to_pickle, custom_serializers,
          custom_deserializers, lastreg, ser>>

regvars == <<whitelisted_classes, classes_to_pickle, custom_serializers,
             custom_deserializers>>
typevars == <<regvars, lastreg, ser>>

schedvars == <<fntable, nextref, tasks, queue, notified>>
storevars == <<objstore, aliases>>
localvars == <<idx, arguments, outputs>>
drivervars == <<ncalls, lastcall>>

NoResult == Tuple(<<>>)
NoOps == [put |-> 0, alias |-> 0]
NoReg == [n |-> 0, via |-> "none", cls |-> "none", pickle |-> FALSE,
          custom_serializer |-> NoneC, custom_deserializer |-> NoneC,
          outcome |-> "none"]
NotRun == [error |-> "none", obj |-> <<>>]
NoSer == [stage |-> "none", obj |-> <<>>, out |-> [error |-> "none", out |-> <<>>],
          back |-> NotRun, how_out |-> "none", how_back |-> "none"]
NoCall == [func |-> "none", args |-> <<>>, outcome |-> "none", result |-> NoResult]
ChkOff == [arg_types |-> <<>>, args |-> <<>>, stored |-> <<>>, stage |-> "off",
           call |-> "none", exec |-> "none"]

Task(w) == tasks[call[w]]

\* the serialization module once imported (serialization.py:113-116, 158),
\* a worker process before connect, an empty scheduler log
InitRest ==
    /\ service = [w \in Workers |-> FALSE]
    /\ registrations = [w \in Workers |-> [f \in FuncNames |-> <<>>]]
    /\ storeops = <<>>
    /\ whitelisted_classes = add_entry(EmptyDict, class_identifier("ndarray"), "ndarray")
    /\ classes_to_pickle = {}
    /\ custom_serializers =
           add_entry(EmptyDict, class_identifier("ndarray"), "array_custom_serializer")
    /\ custom_deserializers =
           add_entry(EmptyDict, class_identifier("ndarray"), "array_custom_deserializer")
    /\ lastreg = NoReg
    /\ ser = NoSer

Init ==
    /\ connected = [w \in Workers |-> FALSE]
    /\ functions = [w \in Workers |-> {}]
    /\ fntable = [f \in FuncNames |-> -1]
    /\ nextref = 1
    /\ tasks = <<>>
    /\ queue = {}
    /\ notified = <<>>
    /\ objstore = <<>>
    /\ aliases = <<>>
    /\ pc = [w \in Workers |-> "Start"]
    /\ call = [w \in Workers |-> 0]
    /\ idx = [w \in Workers |-> 0]
    /\ arguments = [w \in Workers |-> <<>>]
    /\ outputs = [w \in Workers |-> NoResult]
    /\ error = [w \in Workers |-> "none"]
    /\ ncalls = 0
    /\ lastcall = NoCall
    /\ chk = ChkOff
    /\ InitRest

\* ------------------------------------------------------------------------
\* Set-up of a worker process
\* ------------------------------------------------------------------------
\* connect (worker.py:84-87)
connect(w) ==
    /\ pc[w] = "Start"
    /\ ~connected[w]
    /\ connected' = [connected EXCEPT ![w] = TRUE]
    /\ UNCHANGED <<typevars, service, registrations, storeops,
                   functions, schedvars, storevars, pc, call, localvars, error,
                   drivervars, chk>>

\* register_module (worker.py:74-80) with Worker.register_function (57-60)
\* for every distributed binding of the module
register_module(w) ==
    /\ pc[w] = "Start"
    /\ connected[w]
    /\ functions[w] = {}
    /\ fntable' = [f \in FuncNames |->
                     IF is_distributed(f) THEN Len(return_types(f)) ELSE fntable[f]]
    /\ functions' = [functions EXCEPT
                     ![w] = @ \cup {b \in ModuleBindings : is_distributed(b)}]
    /\ registrations' = [registrations EXCEPT ![w] =
                            [f \in FuncNames |->
                               IF is_distributed(f)
                               THEN Append(@[f], Len(return_types(f))) ELSE @[f]]]
    /\ UNCHANGED <<typevars, service, storeops, connected, nextref, tasks, queue,
                   notified, storevars, pc, call, localvars, error, drivervars, chk>>

\* disconnect (worker.py:89-90), by a process that is not in its main loop
disconnect(w) ==
    /\ pc[w] = "Start"
    /\ connected[w]
    /\ connected' = [connected EXCEPT ![w] = FALSE]
    /\ UNCHANGED <<typevars, service, registrations, storeops, functions, schedvars,
                   storevars, pc, call, localvars, error, drivervars, chk>>

\* a slip: the loop entered without a look at the connection
main_loop_unchecked(w) ==
    /\ pc[w] = "Start"
    /\ service' = [service EXCEPT ![w] = TRUE]
    /\ pc' = [pc EXCEPT ![w] = "Idle"]
    /\ UNCHANGED <<typevars, registrations, storeops, connected, functions, schedvars,
                   storevars, call, localvars, error, drivervars, chk>>

\* main_loop (worker.py:101-104): entering the loop
main_loop(w) ==
    /\ pc[w] = "Start"
    /\ IF connected[w]
       THEN /\ service' = [service EXCEPT ![w] = TRUE]     \* start_worker_service
            /\ pc' = [pc EXCEPT ![w] = "Idle"]
            /\ UNCHANGED error
       ELSE /\ pc' = [pc EXCEPT ![w] = "Raised"]
            /\ error' = [error EXCEPT ![w] = "NotConnectedError"]
            /\ UNCHANGED service
    /\ UNCHANGED <<typevars, registrations, storeops, connected, functions, schedvars,
                   storevars, call, localvars, drivervars, chk>>

\* ------------------------------------------------------------------------
\* Registration of classes and serialization of objects
\* ------------------------------------------------------------------------
\* add_class_to_whitelist (serialization.py:132-150): the tables afterwards
whitelist_after(wc, cls) == add_entry(wc, class_identifier(cls), cls)

\* a slip: pickle=False takes the class out of the pickled ones
pickle_after_reset(cp, cls, pickle) ==
    IF pickle THEN cp \cup {class_identifier(cls)} ELSE cp \ {class_identifier(cls)}

pickle_after(cp, cls, pickle) ==
    IF pickle THEN cp \cup {class_identifier(cls)} ELSE cp

serializers_after(cs, cls, custom_serializer) ==
    IF custom_serializer # NoneC
    THEN add_entry(cs, class_identifier(cls), custom_serializer) ELSE cs

deserializers_after(cd, cls, custom_serializer, custom_deserializer) ==
    IF custom_serializer # NoneC
    THEN add_entry(cd, class_identifier(cls), custom_deserializer) ELSE cd

Registered(via, cls, pickle, custom_serializer, custom_deserializer, outcome) ==
    [n |-> lastreg.n + 1, via |-> via, cls |-> cls, pickle |-> pickle,
     custom_serializer |-> custom_serializer,
     custom_deserializer |-> custom_deserializer, outcome |-> outcome]

StoreClass(cls, pickle, custom_serializer, custom_deserializer) ==
    /\ whitelisted_classes' = whitelist_after(whitelisted_classes, cls)
    /\ classes_to_pickle' = pickle_after(classes_to_pickle, cls, pickle)
    /\ custom_serializers' = serializers_after(custom_serializers, cls, custom_serializer)
    /\ custom_deserializers' =
          deserializers_after(custom_deserializers, cls, custom_serializer,
                              custom_deserializer)

add_class_to_whitelist(cls, pickle, custom_serializer, custom_deserializer) ==
    /\ lastreg.n < MaxRegs
    /\ StoreClass(cls, pickle, custom_serializer, custom_deserializer)
    /\ lastreg' = Registered("add_class_to_whitelist", cls, pickle, custom_serializer,
                             custom_deserializer, "ok")
    /\ UNCHANGED <<ser, service, registrations, storeops, connected, functions,
                   schedvars, storevars, pc, call, localvars, error, drivervars, chk>>

\* the registration checks the shape of the class unless the class is
\* pickled or has a serializer of its own
needs_check(pickle, custom_serializer) == ~pickle /\ custom_serializer = NoneC

\* register_class: check_serializable, then add_class_to_whitelist
register_class(cls, pickle, custom_serializer, custom_deserializer) ==
    /\ lastreg.n < MaxRegs
    /\ LET raised == IF needs_check(pickle, custom_serializer)
                     THEN check_serializable(cls) ELSE "ok"
       IN  /\ IF raised # "ok"
              THEN UNCHANGED regvars
              ELSE StoreClass(cls, pickle, custom_serializer, custom_deserializer)
           /\ lastreg' = Registered("register_class", cls, pickle, custom_serializer,
                                    custom_deserializer, raised)
    /\ UNCHANGED <<ser, service, registrations, storeops, connected, functions,
                   schedvars, storevars, pc, call, localvars, error, drivervars, chk>>

\* serialize an object and deserialize what comes out
round_trip(obj) ==
    /\ LET out == ray_serialize(whitelisted_classes, classes_to_pickle,
                                custom_serializers, obj)
           class_id == class_identifier(type(obj))
       IN  ser' = [stage |-> "done", obj |-> <<obj>>, out |-> out,
                   back |-> IF out.error = "ok"
                            THEN ray_deserialize(whitelisted_classes, classes_to_pickle,
                                                 custom_deserializers, out.out[1])
                            ELSE NotRun,
                   how_out |-> serialize_strategy(classes_to_pickle,
                                                  custom_serializers, class_id),
                   how_back |-> deserialize_strategy(classes_to_pickle,
                                                     custom_deserializers, class_id)]
    /\ UNCHANGED <<regvars, lastreg, service, registrations, storeops, connected,
                   functions, schedvars, storevars, pc, call, localvars, error,
                   drivervars, chk>>

\* ------------------------------------------------------------------------
\* Invocation path: func_call (worker.py:136-140), Worker.remote_call (62-66)
\* ------------------------------------------------------------------------
\* orchpy.lib.remote_call: k fresh objrefs, k the registered return arity
FreshRefs(k) == [j \in 1..k |-> RefV(nextref + j - 1)]

func_call(f, args) ==
    /\ ncalls < MaxCalls
    /\ fntable[f] >= 0
    /\ ncalls' = ncalls + 1
    /\ LET raised == check_arguments(arg_types(f), args)
           objrefs == FreshRefs(fntable[f])
       IN  IF raised # "ok"
           THEN /\ lastcall' = [func |-> f, args |-> args, outcome |-> raised,
                                result |-> NoResult]
                /\ UNCHANGED <<schedvars, storevars, storeops>>
           ELSE /\ tasks' = Append(tasks, [func_name |-> f, args |-> args,
                                           return_objrefs |-> objrefs])
                /\ queue' = queue \cup {Len(tasks) + 1}
                /\ notified' = Append(notified, 0)
                /\ nextref' = nextref + Len(objrefs)
                /\ objstore' = objstore \o [j \in 1..Len(objrefs) |-> <<>>]
                /\ aliases' = aliases \o [j \in 1..Len(objrefs) |-> 0]
                /\ storeops' = storeops \o [j \in 1..Len(objrefs) |-> NoOps]
                /\ lastcall' = [func |-> f, args |-> args, outcome |-> "ok",
                                result |-> func_call_result(objrefs)]
                /\ UNCHANGED fntable
    /\ UNCHANGED <<typevars, service, registrations, connected, functions, pc, call,
                   localvars, error, chk>>

\* ------------------------------------------------------------------------
\* Execution path: main_loop and process_call (worker.py:105-125)
\* ------------------------------------------------------------------------
\* an exception leaves process_call and main_loop
Raise(w, exc) ==
    /\ pc' = [pc EXCEPT ![w] = "Raised"]
    /\ error' = [error EXCEPT ![w] = exc]
    /\ idx' = [idx EXCEPT ![w] = 0]
    /\ arguments' = [arguments EXCEPT ![w] = <<>>]
    /\ outputs' = [outputs EXCEPT ![w] = NoResult]

\* orchpy.lib.wait_for_next_task (worker.py:124)
wait_for_next_task(w, t) ==
    /\ pc[w] = "Idle"
    /\ t \in queue
    /\ tasks[t].func_name \in functions[w]
    /\ queue' = queue \ {t}
    /\ call' = [call EXCEPT ![w] = t]
    /\ pc' = [pc EXCEPT ![w] = "Deserializing"]
    /\ UNCHANGED <<typevars, service, registrations, storeops,
                   connected, functions, fntable, nextref, tasks, notified, storevars,
                   localvars, error, drivervars, chk>>

\* a slip: the function taken out of worker.functions when it is looked up
deserialize_call_pop(w) ==
    /\ pc[w] = "Deserializing"
    /\ pc' = [pc EXCEPT ![w] = AfterArgument(Task(w).args, 0)]
    /\ idx' = [idx EXCEPT ![w] = 0]
    /\ functions' = [functions EXCEPT ![w] = @ \ {Task(w).func_name}]
    /\ UNCHANGED <<typevars, service, registrations, storeops,
                   connected, schedvars, storevars, call, arguments, outputs,
                   error, drivervars, chk>>

\* serialization.deserialize_call (worker.py:107)
deserialize_call(w) ==
    /\ pc[w] = "Deserializing"
    /\ pc' = [pc EXCEPT ![w] = AfterArgument(Task(w).args, 0)]
    /\ idx' = [idx EXCEPT ![w] = 0]
    /\ UNCHANGED <<typevars, service, registrations, storeops,
                   connected, functions, schedvars, storevars, call, arguments, outputs,
                   error, drivervars, chk>>

\* get_arguments_for_execution (worker.py:199-220): one turn of the loop
get_argument(w) ==
    /\ pc[w] = "ResolvingArgs"
    /\ LET i == idx[w]
           arg == Task(w).args[i + 1]
           expected_type == ExecExpectedType(arg_types(Task(w).func_name), i)
       IN  IF expected_type = "Unreachable" THEN Raise(w, "AssertionError")
           ELSE IF expected_type = "IndexError" THEN Raise(w, "IndexError")
           ELSE /\ IsObjRef(arg) => Available(objstore, aliases, arg.val)
                /\ LET argument == IF IsObjRef(arg)
                                   THEN get_object(objstore, aliases, arg.val)
                                   ELSE arg
                   IN  IF CheckArgument(argument, expected_type) # "ok"
                       THEN Raise(w, CheckArgument(argument, expected_type))
                       ELSE /\ arguments' = [arguments EXCEPT ![w] = Append(@, argument)]
                            /\ idx' = [idx EXCEPT ![w] = i + 1]
                            /\ pc' = [pc EXCEPT ![w] = AfterArgument(Task(w).args, i + 1)]
                            /\ UNCHANGED <<outputs, error>>
    /\ UNCHANGED <<typevars, service, registrations, storeops,
                   connected, functions, schedvars, storevars, call, drivervars, chk>>

\* the objrefs a function body can have at hand: those allocated before its own
Held(t) ==
    {r \in 1..Len(objstore) :
        \A j \in 1..Len(tasks[t].return_objrefs) : r < tasks[t].return_objrefs[j].val}

\* func_executor (worker.py:129-135)
func_executor(w) ==
    /\ pc[w] = "Executing"
    /\ \E result \in func(Task(w).func_name, arguments[w], Held(call[w])) :
          LET raised == IF result = Raises THEN "UserError"
                        ELSE check_return_values(return_types(Task(w).func_name), result)
          IN  IF raised # "ok" THEN Raise(w, raised)
              ELSE /\ outputs' = [outputs EXCEPT ![w] = result]
                   /\ idx' = [idx EXCEPT ![w] = 0]
                   /\ pc' = [pc EXCEPT ![w] = "PublishingResults"]
                   /\ UNCHANGED <<arguments, error>>
    /\ UNCHANGED <<typevars, service, registrations, storeops,
                   connected, functions, schedvars, storevars, call, drivervars, chk>>

\* a slip: the else left out, an objref output aliased and then put as well
store_output_no_else(w) ==
    /\ pc[w] = "PublishingResults"
    /\ ~OutputsStored(Task(w).return_objrefs, idx[w])
    /\ LET i == idx[w]
           objref == Task(w).return_objrefs[i + 1].val
           output == OutputsOf(Task(w).return_objrefs, outputs[w])[i + 1]
       IN  IF put_object(output).error # "ok"
           THEN Raise(w, put_object(output).error) /\ UNCHANGED <<storevars, storeops>>
           ELSE /\ aliases' = IF IsObjRef(output)
                               THEN alias_objrefs(aliases, objref, output.val)
                               ELSE aliases
                /\ objstore' = [objstore EXCEPT ![objref] = put_object(output).entry]
                /\ storeops' = [storeops EXCEPT
                                  ![objref].put = @ + 1,
                                  ![objref].alias = IF IsObjRef(output) THEN @ + 1 ELSE @]
                /\ idx' = [idx EXCEPT ![w] = i + 1]
                /\ UNCHANGED <<pc, arguments, outputs, error>>
    /\ UNCHANGED <<typevars, service, registrations, connected, functions, schedvars, call,
                   drivervars, chk>>

\* store_outputs_in_objstore (worker.py:228-235): one turn of the loop
store_output(w) ==
    /\ pc[w] = "PublishingResults"
    /\ ~OutputsStored(Task(w).return_objrefs, idx[w])
    /\ LET i == idx[w]
           objref == Task(w).return_objrefs[i + 1].val
           output == OutputsOf(Task(w).return_objrefs, outputs[w])[i + 1]
       IN  IF IsObjRef(output)
           THEN /\ aliases' = alias_objrefs(aliases, objref, output.val)
                /\ storeops' = [storeops EXCEPT ![objref].alias = @ + 1]
                /\ idx' = [idx EXCEPT ![w] = i + 1]
                /\ UNCHANGED <<objstore, pc, arguments, outputs, error>>
           ELSE IF put_object(output).error # "ok"
           THEN Raise(w, put_object(output).error) /\ UNCHANGED <<storevars, storeops>>
           ELSE /\ objstore' = [objstore EXCEPT ![objref] = put_object(output).entry]
                /\ storeops' = [storeops EXCEPT ![objref].put = @ + 1]
                /\ idx' = [idx EXCEPT ![w] = i + 1]
                /\ UNCHANGED <<aliases, pc, arguments, outputs, error>>
    /\ UNCHANGED <<typevars, service, registrations, connected, functions, schedvars, call,
                   drivervars, chk>>

\* orchpy.lib.notify_task_completed (worker.py:120), back to the top of the loop
notify_task_completed(w) ==
    /\ pc[w] = "PublishingResults"
    /\ OutputsStored(Task(w).return_objrefs, idx[w])
    /\ notified' = [notified EXCEPT ![call[w]] = @ + 1]
    /\ pc' = [pc EXCEPT ![w] = "Idle"]
    /\ call' = [call EXCEPT ![w] = 0]
    /\ idx' = [idx EXCEPT ![w] = 0]
    /\ arguments' = [arguments EXCEPT ![w] = <<>>]
    /\ outputs' = [outputs EXCEPT ![w] = NoResult]
    /\ UNCHANGED <<typevars, service, registrations, storeops,
                   connected, functions, fntable, nextref, tasks, queue, storevars,
                   error, drivervars, chk>>

\* ------------------------------------------------------------------------
\* Specifications
\* ------------------------------------------------------------------------
ArgLists(vals) == UNION {[1..n -> vals] : n \in 0..MaxArgs}

Refs == {RefV(r) : r \in 1..(nextref - 1)}

\* calls with the declared number of arguments, literal or by reference
TaskCalls(f) ==
    IF Len(arg_types(f)) > MaxArgs THEN {}
    ELSE [1..Len(arg_types(f)) -> {IntV(1)} \cup Refs]

\* any call
AnyCalls == ArgLists({IntV(1), StrV} \cup Refs)

SetUp ==
    \/ \E w \in Workers : connect(w)
    \/ \E w \in Workers : register_module(w)

Loop ==
    \/ \E w \in Workers : \E t \in queue : wait_for_next_task(w, t)
    \/ \E w \in Workers : deserialize_call(w)
    \/ \E w \in Workers : get_argument(w)
    \/ \E w \in Workers : func_executor(w)
    \/ \E w \in Workers : store_output(w)
    \/ \E w \in Workers : notify_task_completed(w)

\* the functions the driver calls
MainFuncs == {"add", "split", "forward", "label", "tag", "wrap"}

Next ==
    \/ SetUp
    \/ \E w \in Workers : main_loop(w)
    \/ Loop
    \/ \E f \in MainFuncs : \E a \in TaskCalls(f) : func_call(f, a)

Spec == Init /\ [][Next]_vars

\* get_arguments_for_execution (worker.py:199-221) as a function of the call
\* and of the store: "ok", the exception raised, or "blocked" in get_object
RECURSIVE PrepareFrom(_, _, _, _, _)
PrepareFrom(at, args, i, st, al) ==
    IF i >= Len(args) THEN "ok"
    ELSE LET expected_type == ExecExpectedType(at, i)
             arg == args[i + 1]
         IN  IF expected_type = "Unreachable" THEN "AssertionError"
             ELSE IF expected_type = "IndexError" THEN "IndexError"
             ELSE IF IsObjRef(arg) /\ ~Available(st, al, arg.val) THEN "blocked"
             ELSE LET argument == IF IsObjRef(arg) THEN get_object(st, al, arg.val)
                                  ELSE arg
                  IN  IF CheckArgument(argument, expected_type) # "ok"
                      THEN CheckArgument(argument, expected_type)
                      ELSE PrepareFrom(at, args, i + 1, st, al)

get_arguments_for_execution(at, args, st, al) == PrepareFrom(at, args, 0, st, al)

\* ------------------------------------------------------------------------
\* The argument checks applied to every signature and argument list
\* ------------------------------------------------------------------------
TypeSeqs == UNION {[1..n -> {"int", "str"}] : n \in 0..MaxSig}
Signatures == TypeSeqs \cup {Append(p, NoneT) : p \in TypeSeqs}

\* what objref 1 holds in the store: nothing yet, an int or a str
StoredCases == {<<>>, <<serialize(IntV(1))>>, <<serialize(StrV)>>}

InitArgs ==
    /\ connected = [w \in Workers |-> FALSE]
    /\ functions = [w \in Workers |-> {}]
    /\ fntable = [f \in FuncNames |-> -1]
    /\ nextref = 1
    /\ tasks = <<>>
    /\ queue = {}
    /\ notified = <<>>
    /\ objstore = <<>>
    /\ aliases = <<>>
    /\ pc = [w \in Workers |-> "Start"]
    /\ call = [w \in Workers |-> 0]
    /\ idx = [w \in Workers |-> 0]
    /\ arguments = [w \in Workers |-> <<>>]
    /\ outputs = [w \in Workers |-> NoResult]
    /\ error = [w \in Workers |-> "none"]
    /\ ncalls = 0
    /\ lastcall = NoCall
    /\ InitRest
    /\ chk \in {[arg_types |-> s, args |-> a, stored |-> c, stage |-> "new",
                 call |-> "none", exec |-> "none"] :
                  s \in Signatures, a \in ArgLists({IntV(1), StrV, RefV(1)}),
                  c \in StoredCases}

\* check_arguments applied to the call
CheckCall ==
    /\ chk.stage = "new"
    /\ chk' = [chk EXCEPT !.stage = "checked",
                          !.call = check_arguments(chk.arg_types, chk.args)]
    /\ UNCHANGED <<typevars, service, registrations, storeops,
                   connected, functions, schedvars, storevars, pc, call, localvars,
                   error, drivervars>>

\* get_arguments_for_execution applied to the call
PrepareCall ==
    /\ chk.stage = "checked"
    /\ chk' = [chk EXCEPT !.stage = "prepared",
                          !.exec = get_arguments_for_execution(
                                      chk.arg_types, chk.args, <<chk.stored>>, <<0>>)]
    /\ UNCHANGED <<typevars, service, registrations, storeops,
                   connected, functions, schedvars, storevars, pc, call, localvars,
                   error, drivervars>>

NextArgs == CheckCall \/ PrepareCall

SpecArgs == InitArgs /\ [][NextArgs]_vars

\* Invocations of every shape, without the workers' loops
CallFuncs == {"add", "split"}

NextCall ==
    \/ SetUp
    \/ \E f \in CallFuncs : \E a \in AnyCalls : func_call(f, a)

\* Calls of functions whose results are all ints, with fair workers: a worker
\* blocked in get_object goes on once the value is there
BlockFuncs == {"add", "forward"}

NextBlock ==
    \/ SetUp
    \/ \E w \in Workers : main_loop(w)
    \/ Loop
    \/ \E f \in BlockFuncs : \E a \in TaskCalls(f) : func_call(f, a)

SpecBlock ==
    Init /\ [][NextBlock]_vars /\ \A w \in Workers : WF_vars(get_argument(w))

SpecCall == Init /\ [][NextCall]_vars

\* The life of a worker process: connections made and given up, the loop
\* entered, tasks that end well and tasks that raise
LoopFuncs == {"label", "forward", "fail", "trio", "pack"}

NextLoop ==
    \/ SetUp
    \/ \E w \in Workers : disconnect(w)
    \/ \E w \in Workers : main_loop(w)
    \/ Loop
    \/ \E f \in LoopFuncs : \E a \in TaskCalls(f) : func_call(f, a)

SpecLoop == Init /\ [][NextLoop]_vars

\* Workers in their loops while classes are being registered
FrameFuncs == {"forward", "fail"}
FrameClasses == {"Plain"}

NextFrame ==
    \/ SetUp
    \/ \E w \in Workers : main_loop(w)
    \/ Loop
    \/ \E f \in FrameFuncs : \E a \in TaskCalls(f) : func_call(f, a)
    \/ \E cls \in FrameClasses : \E pickle \in BOOLEAN :
          add_class_to_whitelist(cls, pickle, NoneC, NoneC)

SpecFrame == Init /\ [][NextFrame]_vars

\* ------------------------------------------------------------------------
\* Registrations of classes in any order, objects serialized in between
\* ------------------------------------------------------------------------
\* the classes registered with every combination of options
OptionClasses == {"Plain", "ndarray"}

RegOptions(cls) ==
    IF cls \in OptionClasses
    THEN BOOLEAN \X Serializers \X Deserializers
    ELSE BOOLEAN \X {NoneC} \X {NoneC}

Objects ==
    {Obj("Plain", Attrs1, <<>>), Obj("Plain", Attrs2, <<>>),
     Obj("SubPlain", Attrs1, <<>>), Obj("Slotted", Attrs1, <<>>),
     Obj("Mixed", Attrs1, <<>>), Obj("NewOverride", Attrs1, <<"1">>),
     Obj("OldStyle", Attrs1, <<>>), Obj("Point", Attrs1, <<"1">>),
     Obj("ndarray", EmptyDict, <<>>)}

NextTypes ==
    \/ \E cls \in AppClasses \cup {"ndarray"} : \E o \in RegOptions(cls) :
          add_class_to_whitelist(cls, o[1], o[2], o[3])
    \/ \E cls \in AppClasses : \E o \in RegOptions(cls) :
          register_class(cls, o[1], o[2], o[3])
    \/ \E obj \in Objects : round_trip(obj)

SpecTypes == Init /\ [][NextTypes]_vars

\* ------------------------------------------------------------------------
\* What the store holds, as a reader of the store sees it
\* ------------------------------------------------------------------------
RECURSIVE Target(_)
Target(r) == IF aliases[r] = 0 THEN r ELSE Target(aliases[r])

Published(r) == objstore[Target(r)] # <<>>

Resolve(r) ==
    LET c == objstore[Target(r)][1] IN [kind |-> c.tag, val |-> c.payload]

\* objref r has been written directly or made an alias
Written(r) == objstore[r] # <<>> \/ aliases[r] # 0

TaskIds == 1..Len(tasks)
RetRefs(t) == [j \in 1..Len(tasks[t].return_objrefs) |-> tasks[t].return_objrefs[j].val]

\* the i-th of n declared outputs in a result
Component(result, n, i) ==
    IF n = 1
    THEN IF result.tuple THEN [kind |-> "tuple", val |-> Len(result.elems)]
         ELSE result.elems[1]
    ELSE result.elems[i]

\* ------------------------------------------------------------------------
\* C1: every task goes through the stages deserialize call, resolve
\* arguments, execute, publish outputs, notify in this order;
\* notify_task_completed comes only after every return objref of the task
\* has been written or aliased, and once per task processed to its end.
\* ------------------------------------------------------------------------
StageOrder ==
    {<<"Start", "Idle">>, <<"Idle", "Deserializing">>,
     <<"Deserializing", "ResolvingArgs">>, <<"Deserializing", "Executing">>,
     <<"ResolvingArgs", "Executing">>, <<"Executing", "PublishingResults">>,
     <<"PublishingResults", "Idle">>}

C1Step ==
    /\ \A w \in Workers :
          pc'[w] # pc[w] =>
             \/ pc'[w] = "Raised"
             \/ <<pc[w], pc'[w]>> \in StageOrder
    /\ \A t \in TaskIds :
          notified'[t] # notified[t] =>
             /\ notified[t] = 0 /\ notified'[t] = 1
             /\ \A j \in 1..Len(RetRefs(t)) : Written(RetRefs(t)[j])
             /\ \E w \in Workers :
                   call[w] = t /\ pc[w] = "PublishingResults" /\ pc'[w] = "Idle"
    /\ \A w \in Workers :
          (pc[w] = "PublishingResults" /\ pc'[w] = "Idle") =>
             notified'[call[w]] = notified[call[w]] + 1

C1_StagesInOrder == [][C1Step]_vars

C1_Witness ==
    \E t \in TaskIds :
       /\ notified[t] = 1
       /\ Len(RetRefs(t)) = 2
       /\ \A j \in 1..2 : Written(RetRefs(t)[j])

\* ------------------------------------------------------------------------
\* C2: once a task called on literal arguments has been processed to its
\* end, its i-th return objref holds the i-th component of what the function
\* returns for these arguments (the whole result for one return value).
\* ------------------------------------------------------------------------
AllLiteral(args) == \A i \in 1..Len(args) : ~IsObjRef(args[i])

C2Delivered(t) ==
    LET f == tasks[t].func_name
        n == Len(return_types(f))
    IN  /\ Len(RetRefs(t)) = n
        /\ \E result \in func(f, tasks[t].args, Held(t)) :
              \A i \in 1..n :
                 LET r == RetRefs(t)[i]
                     v == Component(result, n, i)
                 IN  IF IsObjRef(v)
                     THEN aliases[r] = v.val
                     ELSE aliases[r] = 0 /\ Published(r) /\ Resolve(r) = v

C2_EndToEnd ==
    \A t \in TaskIds :
       (notified[t] = 1 /\ AllLiteral(tasks[t].args)) => C2Delivered(t)

C2_Witness ==
    \E t \in TaskIds :
       /\ notified[t] = 1
       /\ tasks[t].func_name = "split"
       /\ tasks[t].args = <<IntV(1)>>
       /\ Resolve(RetRefs(t)[1]) = IntV(1)
       /\ Resolve(RetRefs(t)[2]) = IntV(2)

Publishing(t) == \E w \in Workers : call[w] = t /\ pc[w] = "PublishingResults"

C4_AllOrNothing ==
    \A t \in TaskIds :
       ~Publishing(t) =>
          \/ \A j \in 1..Len(RetRefs(t)) : Written(RetRefs(t)[j])
          \/ \A j \in 1..Len(RetRefs(t)) : ~Written(RetRefs(t)[j])

\* C4 amended: the outputs are published one by one in index order; when
\* publishing the i-th output fails, the outputs before it stay published,
\* those from i on are not, and completion is not signaled; completion is
\* signaled only when all are.
PublishedPrefix(t, n) ==
    /\ \A j \in 1..n : Written(RetRefs(t)[j])
    /\ \A j \in (n + 1)..Len(RetRefs(t)) : ~Written(RetRefs(t)[j])

C4_PrefixPublished ==
    \A t \in TaskIds :
       /\ \E n \in 0..Len(RetRefs(t)) : PublishedPrefix(t, n)
       /\ notified[t] = 1 => PublishedPrefix(t, Len(RetRefs(t)))
       /\ \A w \in Workers :
             (call[w] = t /\ pc[w] = "Raised") =>
                /\ notified[t] = 0
                /\ ~PublishedPrefix(t, Len(RetRefs(t)))

C4_Witness ==
    \E t \in TaskIds : \E w \in Workers :
       /\ call[w] = t
       /\ pc[w] = "Raised"
       /\ error[w] = "UnregisteredTypeError"
       /\ PublishedPrefix(t, 1)
       /\ Len(RetRefs(t)) = 2
       /\ notified[t] = 0

\* ------------------------------------------------------------------------
\* C5: a call with a wrong number of arguments for a fixed signature, or
\* with a literal argument of the wrong type at its position, raises in the
\* caller; nothing is scheduled and no objref is allocated for it.
\* ------------------------------------------------------------------------
C5Bad(f, args) ==
    LET at == arg_types(f)
    IN  \/ Last(at) # NoneT /\ Len(args) # Len(at)
        \/ \E i \in 1..Len(args) :
              /\ i <= Len(at)
              /\ at[i] # NoneT
              /\ ~IsObjRef(args[i])
              /\ ~IsInstance(args[i], at[i])

C5Step ==
    (ncalls' # ncalls /\ C5Bad(lastcall'.func, lastcall'.args)) =>
       /\ lastcall'.outcome \notin {"ok", "none"}
       /\ lastcall'.result = NoResult
       /\ UNCHANGED <<tasks, queue, nextref, notified, objstore, aliases>>

C5_ErrorsBeforeScheduling == [][C5Step]_vars

C5_Witness ==
    /\ lastcall.func = "add"
    /\ Len(lastcall.args) = 3
    /\ lastcall.outcome = "ArityError"
    /\ ncalls = 2
    /\ Len(tasks) = 1
    /\ nextref = 2

\* ------------------------------------------------------------------------
\* C6: a successful call of a function registered with k return types
\* returns k distinct fresh objrefs at once, the task still waiting: one
\* objref for k = 1, a sequence of k objrefs otherwise.
\* ------------------------------------------------------------------------
C6_ArityLaw ==
    /\ lastcall.outcome = "ok" =>
          LET k == Len(return_types(lastcall.func))
              refs == lastcall.result.elems
          IN  /\ Len(refs) = k
              /\ lastcall.result.tuple = (k # 1)
              /\ \A i \in 1..k : IsObjRef(refs[i])
              /\ \A i, j \in 1..k : refs[i] = refs[j] => i = j
              /\ refs = tasks[Len(tasks)].return_objrefs
              /\ fntable[lastcall.func] = k
    /\ \A t, u \in TaskIds : \A i \in 1..Len(RetRefs(t)) : \A j \in 1..Len(RetRefs(u)) :
          RetRefs(t)[i] = RetRefs(u)[j] => (t = u /\ i = j)

C6_Witness ==
    /\ lastcall.outcome = "ok"
    /\ lastcall.func = "add"
    /\ ~lastcall.result.tuple
    /\ Len(tasks) = 2
    /\ Len(tasks[1].return_objrefs) = 2
    /\ queue = {1, 2}

\* ------------------------------------------------------------------------
\* C7: for arg_types of length N >= 2 ending in the variadic sentinel,
\* check_arguments accepts exactly the argument lists of length >= N - 1
\* whose literals are instances of arg_types[i] at the positions i < N - 1
\* and of arg_types[N - 2] at the positions from N - 1 on.
\* ------------------------------------------------------------------------
C7Accepts(at, args) ==
    LET N == Len(at)
    IN  /\ Len(args) >= N - 1
        /\ \A p \in 1..Len(args) :
              IsObjRef(args[p]) \/
                 IsInstance(args[p], IF p <= N - 1 THEN at[p] ELSE at[N - 1])

C7_VariadicPrefix ==
    (chk.stage \in {"checked", "prepared"}
        /\ Len(chk.arg_types) >= 2 /\ Last(chk.arg_types) = NoneT) =>
       ((chk.call = "ok") <=> C7Accepts(chk.arg_types, chk.args))

C7_Witness ==
    /\ chk.stage = "checked"
    /\ chk.arg_types = <<"int", NoneT>>
    /\ chk.args = <<IntV(1), IntV(1), IntV(1)>>
    /\ chk.call = "ok"

\* ------------------------------------------------------------------------
\* C8 as stated: for arg_types made of the variadic sentinel alone, the
\* check on the invocation path and the preparation on the execution path
\* accept every argument list, and the branch asserted unreachable is never
\* taken.
\* ------------------------------------------------------------------------
C8_FullyVariadic ==
    chk.arg_types = <<NoneT>> =>
       /\ chk.stage \in {"checked", "prepared"} => chk.call = "ok"
       /\ chk.stage = "prepared" => chk.exec \in {"ok", "blocked"}

\* ------------------------------------------------------------------------
\* C9 as stated: whatever the number of declared return types, a result
\* with an element that is neither of its declared type nor an objref makes
\* the executor fail, so that it is never published.
\* ------------------------------------------------------------------------
C9_ReturnTypesChecked ==
    /\ \A w \in Workers :
          pc[w] = "PublishingResults" =>
             LET rt == return_types(Task(w).func_name)
             IN  \A i \in 1..Len(rt) :
                    LET v == Component(outputs[w], Len(rt), i)
                    IN  IsInstance(v, rt[i]) \/ IsObjRef(v)
    /\ \A t \in TaskIds : \A j \in 1..Len(RetRefs(t)) :
          objstore[RetRefs(t)[j]] # <<>> =>
             objstore[RetRefs(t)[j]][1].tag = return_types(tasks[t].func_name)[j]

\* ------------------------------------------------------------------------
\* C10: a worker resolving an objref argument that is not published yet
\* stays in the argument stage and does not run the function; once the
\* objref is published or aliased to a published one the worker goes on,
\* with the very value published, whether the producer was handed out
\* before or after the wait began.
\* ------------------------------------------------------------------------
WaitsAt(w, i) ==
    /\ call[w] # 0
    /\ pc[w] = "ResolvingArgs"
    /\ idx[w] = i
    /\ IsObjRef(Task(w).args[i + 1])

C10Safe ==
    \A w \in Workers :
       (call[w] # 0 /\ pc[w] \in {"ResolvingArgs", "Executing", "PublishingResults"}) =>
          /\ Len(arguments[w]) = IF pc[w] = "ResolvingArgs" THEN idx[w]
                                 ELSE Len(Task(w).args)
          /\ \A j \in 1..Len(arguments[w]) :
                LET a == Task(w).args[j]
                IN  IF IsObjRef(a)
                    THEN Published(a.val) /\ arguments[w][j] = Resolve(a.val)
                    ELSE arguments[w][j] = a

ResumedAt(w, t, i) ==
    /\ call[w] = t
    /\ Len(arguments[w]) > i
    /\ IsObjRef(tasks[t].args[i + 1])
    /\ Published(tasks[t].args[i + 1].val)
    /\ arguments[w][i + 1] = Resolve(tasks[t].args[i + 1].val)

C10Live ==
    \A w \in Workers : \A t \in 1..MaxCalls : \A i \in 0..(MaxArgs - 1) :
       (call[w] = t /\ WaitsAt(w, i) /\ Published(Task(w).args[i + 1].val))
          ~> ResumedAt(w, t, i)

C11Step ==
    \A w \in Workers :
       (pc[w] = "Start" /\ pc'[w] # "Start" /\ ~connected[w]) =>
          /\ pc'[w] = "Raised"
          /\ error'[w] = "NotConnectedError"
          /\ ~service'[w]
          /\ call'[w] = 0
          /\ queue' = queue

C11Safe ==
    \A w \in Workers :
       /\ service[w] => connected[w]
       /\ error[w] = "NotConnectedError" =>
             (pc[w] = "Raised" /\ ~service[w] /\ call[w] = 0)
       /\ (pc[w] \notin {"Start", "Raised"} \/ call[w] # 0) => service[w]

C11_NotConnected == []C11Safe /\ [][C11Step]_vars

C11_Witness ==
    \E w \in Workers : \E t \in queue :
       /\ error[w] = "NotConnectedError"
       /\ ~connected[w]
       /\ tasks[t].func_name \in functions[w]
       /\ pc[w] = "Raised"

\* ------------------------------------------------------------------------
\* C12 as stated: once a worker has entered the loop it is in one of the
\* stages of the loop for ever, whatever the outcome of the tasks it
\* processes.
\* ------------------------------------------------------------------------
LoopStages == {"Idle", "Deserializing", "ResolvingArgs", "Executing", "PublishingResults"}

C12_LoopNeverEnds ==
    \A w \in Workers : service[w] => pc[w] \in LoopStages

\* What main_loop does: after a task processed to its end the worker
\* fetches the next one; every exception raised while a task is processed (a
\* failing argument check, a raising user function, a failing return check,
\* a failing publication) leaves main_loop, which is never entered again;
\* the loop has no other exit, none from the idle state.
C12Step ==
    \A w \in Workers :
       /\ (pc[w] = "PublishingResults" /\ notified'[call[w]] # notified[call[w]]) =>
             pc'[w] = "Idle"
       /\ error'[w] # error[w] => (pc'[w] = "Raised" /\ error[w] = "none")
       /\ (pc[w] \in LoopStages /\ pc'[w] \notin LoopStages) =>
             /\ pc[w] \in {"ResolvingArgs", "Executing", "PublishingResults"}
             /\ pc'[w] = "Raised"
             /\ error'[w] \in {"ArgumentTypeError", "UserError", "TypeError",
                               "ReturnArityError", "ReturnTypeError",
                               "UnregisteredTypeError"}
       /\ pc[w] = "Raised" => pc'[w] = "Raised"

LoopEndsOnException == [][C12Step]_vars

\* one worker alone has processed a task to its end, fetched the next one
\* and left the loop with the exception of its argument check
LoopEnded ==
    \E w \in Workers :
       /\ \A v \in Workers \ {w} : pc[v] = "Start"
       /\ service[w]
       /\ notified = <<1, 0>>
       /\ call[w] = 2
       /\ pc[w] = "Raised"
       /\ error[w] = "ArgumentTypeError"

\* ------------------------------------------------------------------------
\* C13 as stated: registering, without pickle and without a serializer of
\* its own, a class that cannot be allocated with __new__ alone, whose
\* instances have no __dict__ or that uses __slots__ fails with the
\* unserializable-type error and leaves the tables of classes unchanged.
\* ------------------------------------------------------------------------
ViolatesShape(cls) ==
    ~has_new(cls) \/ ~new_works(cls) \/ ~has_dict(cls) \/ has_slots(cls)

PlainRegistration ==
    /\ lastreg'.n # lastreg.n
    /\ lastreg'.via = "register_class"
    /\ ~lastreg'.pickle
    /\ lastreg'.custom_serializer = NoneC

C13StatedStep ==
    (PlainRegistration /\ ViolatesShape(lastreg'.cls)) =>
       /\ lastreg'.outcome = "UnserializableTypeError"
       /\ UNCHANGED regvars

C13Step ==
    /\ (PlainRegistration /\ ViolatesShape(lastreg'.cls)
           /\ ~is_named_tuple(lastreg'.cls)) =>
          /\ lastreg'.outcome = "UnserializableTypeError"
          /\ UNCHANGED regvars
    /\ (PlainRegistration /\ is_named_tuple(lastreg'.cls)) =>
          /\ lastreg'.outcome = "ok"
          /\ class_identifier(lastreg'.cls) \in DOMAIN whitelisted_classes'
    /\ (PlainRegistration /\ ~ViolatesShape(lastreg'.cls)) =>
          /\ lastreg'.outcome = "ok"
          /\ class_identifier(lastreg'.cls) \in DOMAIN whitelisted_classes'

C14Step ==
    /\ ser' # ser =>
          LET obj == ser'.obj[1]
          IN  IF class_identifier(type(obj)) \in DOMAIN whitelisted_classes
              THEN ser'.out.error # "UnregisteredTypeError"
              ELSE /\ ser'.out.error = "UnregisteredTypeError"
                   /\ ser'.out.out = <<>>
                   /\ ser'.back = NotRun
    /\ DOMAIN whitelisted_classes \subseteq DOMAIN whitelisted_classes'
    /\ \A id \in DOMAIN whitelisted_classes' \ DOMAIN whitelisted_classes :
          /\ lastreg'.outcome = "ok"
          /\ id = class_identifier(lastreg'.cls)

C14_UnregisteredType == [][C14Step]_vars

C14_Witness ==
    /\ ser.stage = "done"
    /\ ser.obj[1].cls = "SubPlain"
    /\ "app.Plain" \in DOMAIN whitelisted_classes
    /\ "app.SubPlain" \notin DOMAIN whitelisted_classes
    /\ ser.out.error = "UnregisteredTypeError"
    /\ lastreg.n = 2

\* ------------------------------------------------------------------------
\* C15 as stated: for an object of a class registered by whatever calls of
\* add_class_to_whitelist, with whatever options, deserialize gives back
\* from what serialize returns an object of the same class with the same
\* attributes, and both take the same strategy for the class identifier.
\* ------------------------------------------------------------------------
SameObject(a, b) ==
    /\ a.cls = b.cls
    /\ DOMAIN a.attrs = DOMAIN b.attrs
    /\ \A k \in DOMAIN a.attrs : a.attrs[k] = b.attrs[k]
    /\ a.newargs = b.newargs

C15Step ==
    (ser' # ser /\ class_identifier(ser'.obj[1].cls) \in DOMAIN whitelisted_classes) =>
       /\ ser'.out.error = "ok"
       /\ ser'.back.error = "ok"
       /\ SameObject(ser'.back.obj[1], ser'.obj[1])
       /\ ser'.how_out = ser'.how_back

C15_RoundTrip == [][C15Step]_vars

\* the two strategies agree in every state: the tables of serializers and
\* deserializers have the same keys
SameStrategy ==
    DOMAIN custom_serializers = DOMAIN custom_deserializers

\* ------------------------------------------------------------------------
\* C16: register_module registers the bindings of the module that are
\* distributed functions and no other: afterwards worker.functions has
\* exactly their names, and the scheduler has received for each of them one
\* register_function with its name and the number of its return types.
\* ------------------------------------------------------------------------
Arity(f) ==
    CASE f \in {"split", "tag", "wrap", "trio"} -> 2
      [] OTHER -> 1

C16_RegisterModule ==
    \A w \in Workers :
       IF functions[w] = {}
       THEN \A f \in FuncNames : registrations[w][f] = <<>>
       ELSE /\ functions[w] = FuncNames
            /\ "helper" \notin functions[w]
            /\ \A f \in FuncNames :
                  /\ registrations[w][f] = <<Arity(f)>>
                  /\ fntable[f] = Arity(f)

C16_Witness ==
    /\ \A w \in Workers : functions[w] = FuncNames
    /\ registrations["w1"]["split"] = <<2>>
    /\ registrations["w2"]["add"] = <<1>>
    /\ \A w \in Workers : pc[w] = "Idle"

\* ------------------------------------------------------------------------
\* C17: on the execution path every argument, an objref once resolved to
\* the value stored and a literal as it is, is checked against the type
\* declared for its position; when one is not an instance of that type the
\* task fails before the body of the function runs: none of its return
\* objrefs is written or aliased and its completion is not signaled.
\* ------------------------------------------------------------------------
ResolvedArg(t, i) ==
    LET a == tasks[t].args[i]
    IN  IF IsObjRef(a) THEN Resolve(a.val) ELSE a

C17Safe ==
    \A w \in Workers :
       /\ pc[w] \in {"Executing", "PublishingResults"} =>
             \A j \in 1..Len(Task(w).args) :
                /\ arguments[w][j] = ResolvedArg(call[w], j)
                /\ IsInstance(arguments[w][j], arg_types(Task(w).func_name)[j])
       /\ (pc[w] = "Raised" /\ error[w] = "ArgumentTypeError") =>
             /\ call[w] # 0
             /\ notified[call[w]] = 0
             /\ \A j \in 1..Len(RetRefs(call[w])) :
                   /\ ~Written(RetRefs(call[w])[j])
                   /\ storeops[RetRefs(call[w])[j]] = NoOps
             /\ \E i \in 1..Len(Task(w).args) :
                   /\ IsObjRef(Task(w).args[i]) => Published(Task(w).args[i].val)
                   /\ ~IsInstance(ResolvedArg(call[w], i), arg_types(Task(w).func_name)[i])

C17Step ==
    \A w \in Workers :
       (/\ pc[w] = "ResolvingArgs"
        /\ <<pc'[w], idx'[w]>> # <<pc[w], idx[w]>>
        /\ ~IsInstance(ResolvedArg(call[w], idx[w] + 1),
                       arg_types(Task(w).func_name)[idx[w] + 1])) =>
          /\ pc'[w] = "Raised"
          /\ error'[w] = "ArgumentTypeError"
          /\ UNCHANGED <<objstore, aliases, notified, storeops>>

C17_ArgumentsCheckedBeforeExecution == []C17Safe /\ [][C17Step]_vars

C17_Witness ==
    \E w \in Workers :
       /\ pc[w] = "Raised"
       /\ error[w] = "ArgumentTypeError"
       /\ call[w] = 2
       /\ tasks[1].func_name = "pack"
       /\ tasks[2].func_name = "forward"
       /\ tasks[2].args = <<RefV(1)>>
       /\ notified = <<1, 0>>
       /\ ~Written(RetRefs(2)[1])

\* ------------------------------------------------------------------------
\* C18: for a function with k # 1 return types, a result with a number of
\* elements other than k makes the executor fail with the return-arity
\* error: no output of the task is published and its completion is not
\* signaled; for k = 1 the result is one value, a tuple included, and no
\* arity error arises.
\* ------------------------------------------------------------------------
\* the arguments of task t as the executor gets them
ResolvedArgs(t) == [i \in 1..Len(tasks[t].args) |-> ResolvedArg(t, i)]

WrongArity(t) ==
    LET f == tasks[t].func_name
    IN  /\ Len(return_types(f)) # 1
        /\ \A result \in func(f, ResolvedArgs(t), Held(t)) :
              result.tuple /\ Len(result.elems) # Len(return_types(f))

C18Safe ==
    /\ \A w \in Workers :
          /\ (pc[w] = "Raised" /\ error[w] = "ReturnArityError") =>
                /\ WrongArity(call[w])
                /\ notified[call[w]] = 0
                /\ \A j \in 1..Len(RetRefs(call[w])) :
                      /\ ~Written(RetRefs(call[w])[j])
                      /\ storeops[RetRefs(call[w])[j]] = NoOps
          /\ pc[w] = "PublishingResults" =>
                \/ Len(RetRefs(call[w])) = 1
                \/ outputs[w].tuple /\ Len(outputs[w].elems) = Len(RetRefs(call[w]))
    /\ \A t \in TaskIds :
          /\ (notified[t] = 1 /\ tasks[t].func_name = "pack") =>
                Resolve(RetRefs(t)[1]) = [kind |-> "tuple", val |-> 2]
          /\ tasks[t].func_name = "trio" =>
                /\ notified[t] = 0
                /\ \A j \in 1..Len(RetRefs(t)) : ~Written(RetRefs(t)[j])

C18Step ==
    \A w \in Workers :
       (pc[w] = "Executing" /\ pc'[w] # "Executing" /\ WrongArity(call[w])) =>
          /\ pc'[w] = "Raised"
          /\ error'[w] = "ReturnArityError"
          /\ UNCHANGED <<objstore, aliases, notified, storeops>>

C18_ReturnArity == []C18Safe /\ [][C18Step]_vars

C18_Witness ==
    \E w \in Workers :
       /\ pc[w] = "Raised"
       /\ error[w] = "ReturnArityError"
       /\ call[w] = 2
       /\ tasks[2].func_name = "trio"
       /\ tasks[1].func_name = "pack"
       /\ notified = <<1, 0>>
       /\ Resolve(RetRefs(1)[1]).kind = "tuple"

\* ------------------------------------------------------------------------
\* C19: no step of the main loop (fetch, deserialize the call, resolve an
\* argument, execute, publish an output, notify) changes worker.functions
\* or the tables of whitelisted classes; worker.functions changes only by
\* register_module, the tables only by add_class_to_whitelist.
\* ------------------------------------------------------------------------
LoopStep(w) ==
    /\ pc[w] \in LoopStages
    /\ <<pc'[w], idx'[w], call'[w]>> # <<pc[w], idx[w], call[w]>>

C19Step ==
    /\ (\E w \in Workers : LoopStep(w)) => UNCHANGED <<functions, regvars>>
    /\ \A w \in Workers :
          functions'[w] # functions[w] =>
             /\ pc[w] = "Start" /\ pc'[w] = "Start"
             /\ registrations'[w] # registrations[w]
    /\ regvars' # regvars => lastreg'.n = lastreg.n + 1

C19_RegistriesUnchangedByLoop == [][C19Step]_vars

C19_Witness ==
    \E w \in Workers :
       /\ pc[w] = "Idle"
       /\ functions[w] = FuncNames
       /\ \E t \in TaskIds : notified[t] = 1
       /\ "app.Plain" \in classes_to_pickle
       /\ lastreg.n = 2

\* ------------------------------------------------------------------------
\* C20: a worker processing a task issues one store operation for each
\* return objref of the task, in index order: one put, or one aliasing with
\* the return objref as the alias; never both for one objref, and never an
\* operation on an objref that is not a return objref of its task; no
\* objref written directly is ever made an alias.
\* ------------------------------------------------------------------------
OpsOn(r) == storeops[r].put + storeops[r].alias

C20Safe ==
    /\ Len(storeops) = Len(objstore)
    /\ \A r \in 1..Len(storeops) :
          /\ OpsOn(r) <= 1
          /\ (storeops[r].put = 1) = (objstore[r] # <<>>)
          /\ (storeops[r].alias = 1) = (aliases[r] # 0)
          /\ ~(objstore[r] # <<>> /\ aliases[r] # 0)
    /\ \A t \in TaskIds :
          notified[t] = 1 => \A j \in 1..Len(RetRefs(t)) : OpsOn(RetRefs(t)[j]) = 1
    /\ \A w \in Workers :
          pc[w] = "PublishingResults" =>
             \A j \in 1..Len(RetRefs(call[w])) :
                OpsOn(RetRefs(call[w])[j]) = IF j <= idx[w] THEN 1 ELSE 0

C20Step ==
    \A r \in 1..Len(storeops) :
       (storeops'[r] # storeops[r] \/ objstore'[r] # objstore[r]
           \/ aliases'[r] # aliases[r]) =>
          \E w \in Workers :
             /\ pc[w] = "PublishingResults"
             /\ idx[w] < Len(RetRefs(call[w]))
             /\ r = RetRefs(call[w])[idx[w] + 1]
             /\ idx'[w] = idx[w] + 1
             /\ OpsOn(r) = 0
             /\ \/ /\ storeops'[r] = [put |-> 1, alias |-> 0]
                   /\ objstore'[r] # <<>> /\ aliases'[r] = 0
                \/ /\ storeops'[r] = [put |-> 0, alias |-> 1]
                   /\ objstore'[r] = <<>> /\ aliases'[r] # 0
             /\ \A q \in 1..Len(storeops) \ {r} :
                   /\ storeops'[q] = storeops[q]
                   /\ objstore'[q] = objstore[q]
                   /\ aliases'[q] = aliases[q]

C20_OnePublishPerReturnRef == []C20Safe /\ [][C20Step]_vars

C20_Witness ==
    \E t, u \in TaskIds :
       /\ notified[t] = 1
       /\ notified[u] = 1
       /\ Len(RetRefs(t)) = 2
       /\ storeops[RetRefs(t)[1]] = [put |-> 1, alias |-> 0]
       /\ storeops[RetRefs(t)[2]] = [put |-> 1, alias |-> 0]
       /\ storeops[RetRefs(u)[1]] = [put |-> 0, alias |-> 1]
       /\ aliases[RetRefs(u)[1]] = RetRefs(t)[2]

\* ------------------------------------------------------------------------
\* C21: the options of a registration stay. Over the calls of
\* add_class_to_whitelist and register_class, in any order: a class id once
\* in classes_to_pickle stays there; an entry of custom_serializers or of
\* custom_deserializers stays, and changes only with a registration of that
\* class that gives a serializer, to the serializer and deserializer given
\* then; a registration with pickle=False and no serializer leaves the three
\* tables as they are, so that serialize never goes back to the attribute
\* dictionary for a class it pickled or handed to a serializer, and never
\* leaves pickle for a class it pickled.
\* ------------------------------------------------------------------------
Rank(how) ==
    CASE how = "structural" -> 0
      [] how = "custom" -> 1
      [] how = "pickle" -> 2

SerializerGiven(id) ==
    /\ lastreg'.n # lastreg.n
    /\ lastreg'.outcome = "ok"
    /\ class_identifier(lastreg'.cls) = id
    /\ lastreg'.custom_serializer # NoneC

C21Step ==
    /\ classes_to_pickle \subseteq classes_to_pickle'
    /\ DOMAIN custom_serializers \subseteq DOMAIN custom_serializers'
    /\ DOMAIN custom_deserializers \subseteq DOMAIN custom_deserializers'
    /\ \A id \in DOMAIN custom_serializers' :
          (id \notin DOMAIN custom_serializers
             \/ custom_serializers'[id] # custom_serializers[id]) =>
             /\ SerializerGiven(id)
             /\ custom_serializers'[id] = lastreg'.custom_serializer
    /\ \A id \in DOMAIN custom_deserializers' :
          (id \notin DOMAIN custom_deserializers
             \/ custom_deserializers'[id] # custom_deserializers[id]) =>
             /\ SerializerGiven(id)
             /\ custom_deserializers'[id] = lastreg'.custom_deserializer
    /\ (lastreg'.n # lastreg.n /\ ~lastreg'.pickle
           /\ lastreg'.custom_serializer = NoneC) =>
          UNCHANGED <<classes_to_pickle, custom_serializers, custom_deserializers>>
    /\ \A cls \in Classes :
          LET id == class_identifier(cls)
          IN  Rank(serialize_strategy(classes_to_pickle', custom_serializers', id))
                 >= Rank(serialize_strategy(classes_to_pickle, custom_serializers, id))

C21_OptionsAreSticky == [][C21Step]_vars

\* a class registered with pickle=True, then again with pickle=False and no
\* serializer, and an object of it serialized with pickle
C21_Witness ==
    /\ lastreg.n = 2
    /\ lastreg.cls = "Plain"
    /\ lastreg.outcome = "ok"
    /\ ~lastreg.pickle
    /\ lastreg.custom_serializer = NoneC
    /\ "app.Plain" \in classes_to_pickle
    /\ "app.Plain" \notin DOMAIN custom_serializers
    /\ custom_serializers["numpy.ndarray"] = "array_custom_serializer"
    /\ ser.stage = "done"
    /\ ser.obj[1].cls = "Plain"
    /\ ser.how_out = "pickle"
    /\ ser.out.error = "ok"

====
